---- MODULE Spec2Model ----
(***************************************************************************)
(* A model of the three synchronization demonstrations of the repository:  *)
(*   - deadlock_simlation.py : bank transfers under per-account binary     *)
(*     semaphores, in caller order (transfer) and in id order              *)
(*     (transfer_ordered), with the two drivers main and main_ordered;     *)
(*   - Problem1.py : the bounded buffer of pairs (space / full / lock);    *)
(*   - Problem2.py : the relay of three processes over semaphores a, b, c. *)
(* The three programs share no state.  Each specification below runs one   *)
(* of them (or two side by side) and leaves the others in their initial    *)
(* state.                                                                  *)
(***************************************************************************)
EXTENDS Integers, Sequences, FiniteSets, TLC

VARIABLES
    \* ---- deadlock_simlation.py
    balance,    \* Account.balance, per account
    acc_lock,   \* Account.lock: the value of the account's Semaphore(1)
    tpc,        \* per transfer thread: its position in transfer / transfer_ordered
    req,        \* per transfer thread: the arguments of its call
    loc,        \* per transfer thread: from_id, to_id, lock_a, lock_b of transfer_ordered
    outcome,    \* per transfer thread: what the call printed ("none" until then)
    holds,      \* per transfer thread: the account locks it acquired and has not released
    mainpc,     \* the position of the driver (main, main_ordered)
    verdict,    \* what the drivers printed after their joins
    \* ---- Problem1.py
    buffer,     \* the list `buffer`
    space,      \* Semaphore(BUFFER_SIZE)
    full,       \* Semaphore(0)
    lock,       \* Semaphore(1)
    wpc,        \* per worker (producer or consumer): its position in the loop
    wloc,       \* per worker: its locals P1, P2
    iters,      \* per producer: the pairs it has produced so far
    produced,   \* history: every payload appended, in order
    consumed,   \* history: every payload popped, in order
    capacity,   \* the value of BUFFER_SIZE the run was started with
    ahead,      \* history: per producer, the producers that held a first free-slot
                \* permit when it took its own and had not appended when it did
                \* (kept until its pair is appended)
    \* ---- Problem2.py
    a, b, c,    \* the three semaphores
    rpc,        \* per process (1, 2, 3): its position in the loop
    out,        \* what was printed, in order
    started,    \* history: per process, how many times its body started
    completed   \* history: per process, how many times its body completed

transferVars == <<balance, acc_lock, tpc, req, loc, outcome, holds, mainpc, verdict>>
bufferVars == <<buffer, space, full, lock, wpc, wloc, iters, produced, consumed,
               capacity, ahead>>
relayVars == <<a, b, c, rpc, out, started, completed>>
vars == <<transferVars, bufferVars, relayVars>>

\* what a step of one program leaves of the other two
TransferIdle == UNCHANGED transferVars
BufferIdle == UNCHANGED bufferVars
RelayIdle == UNCHANGED relayVars

(***************************************************************************)
(* Bounds of the model.                                                    *)
(***************************************************************************)
\* accounts of the general transfer scenario (the demonstration has two)
NumAccounts == 3
\* concurrent transfer threads of the general transfer scenario
NumThreads == 2

(***************************************************************************)
(* deadlock_simlation.py                                                   *)
(***************************************************************************)
InitialBalance == 1000

\* Strings are sequences of one-character strings.
DigitChars == <<"0", "1", "2", "3", "4", "5", "6", "7", "8", "9">>

RECURSIVE Str(_)
\* str(n) for n >= 0
Str(n) == IF n < 10 THEN <<DigitChars[n + 1]>>
          ELSE Str(n \div 10) \o <<DigitChars[(n % 10) + 1]>>

\* Account.account_id of the account with number n: "Account<n>"
account_id(n) == <<"A", "c", "c", "o", "u", "n", "t">> \o Str(n)

StartsWith(s, p) == Len(s) >= Len(p) /\ SubSeq(s, 1, Len(p)) = p

RECURSIVE Replace(_, _)
\* s.replace(p, ""): every occurrence of p removed, left to right
Replace(s, p) ==
    IF s = <<>> THEN <<>>
    ELSE IF StartsWith(s, p) THEN Replace(SubSeq(s, Len(p) + 1, Len(s)), p)
    ELSE <<Head(s)>> \o Replace(Tail(s), p)

DigitValue(ch) == CHOOSE d \in 0..9 : DigitChars[d + 1] = ch

RECURSIVE ParseInt(_)
\* int(s) of a non-empty string of decimal digits
ParseInt(s) == IF Len(s) = 1 THEN DigitValue(s[1])
               ELSE 10 * ParseInt(SubSeq(s, 1, Len(s) - 1)) + DigitValue(s[Len(s)])

\* (mutant) the length of the account_id stands for its number
NumericIdByLength(acc) == Len(account_id(acc))

\* int(account.account_id.replace("Account", ""))
NumericId(acc) == ParseInt(Replace(account_id(acc), <<"A", "c", "c", "o", "u", "n", "t">>))

NoLoc == [from_id |-> -1, to_id |-> -1, lock_a |-> 0, lock_b |-> 0]

Goto(t, p) == tpc' = [tpc EXCEPT ![t] = p]

\* (mutant) a non-blocking acquire that ignores its result
AcquireLockNoWait(t, acc) ==
    /\ acc_lock' = [acc_lock EXCEPT ![acc] = IF @ > 0 THEN @ - 1 ELSE @]
    /\ holds' = [holds EXCEPT ![t] = @ \cup {acc}]

\* (mutant) a re-entrant lock: the holder acquires it again without waiting
AcquireLockReentrant(t, acc) ==
    IF acc \in holds[t]
    THEN UNCHANGED <<acc_lock, holds>>
    ELSE /\ acc_lock[acc] > 0
         /\ acc_lock' = [acc_lock EXCEPT ![acc] = @ - 1]
         /\ holds' = [holds EXCEPT ![t] = @ \cup {acc}]

\* Semaphore.acquire on an account's lock: blocks while the value is 0
AcquireLock(t, acc) ==
    /\ acc_lock[acc] > 0
    /\ acc_lock' = [acc_lock EXCEPT ![acc] = @ - 1]
    /\ holds' = [holds EXCEPT ![t] = @ \cup {acc}]

\* Semaphore.release on an account's lock
ReleaseLock(t, acc) ==
    /\ acc_lock' = [acc_lock EXCEPT ![acc] = @ + 1]
    /\ holds' = [holds EXCEPT ![t] = @ \ {acc}]

\* ---- transfer (lock order: from, then to)
TransferAcquireFrom(t) ==
    /\ tpc[t] = "t_acquire_from"
    /\ AcquireLock(t, req[t].from)
    /\ Goto(t, "t_sleep")
    /\ UNCHANGED <<balance, req, loc, outcome, mainpc, verdict>>
    /\ BufferIdle /\ RelayIdle

TransferSleep(t) ==
    /\ tpc[t] = "t_sleep"
    /\ Goto(t, "t_acquire_to")
    /\ UNCHANGED <<balance, acc_lock, req, loc, outcome, holds, mainpc, verdict>>
    /\ BufferIdle /\ RelayIdle

\* (mutant) the destination's lock is not taken
TransferAcquireToSkipped(t) ==
    /\ tpc[t] = "t_acquire_to"
    /\ Goto(t, "t_check")
    /\ UNCHANGED <<balance, acc_lock, req, loc, outcome, holds, mainpc, verdict>>
    /\ BufferIdle /\ RelayIdle

TransferAcquireTo(t) ==
    /\ tpc[t] = "t_acquire_to"
    /\ AcquireLock(t, req[t].to)
    /\ Goto(t, "t_check")
    /\ UNCHANGED <<balance, req, loc, outcome, mainpc, verdict>>
    /\ BufferIdle /\ RelayIdle

\* (mutant) no try/finally: the insufficient-funds branch returns at once
TransferCheckEarlyReturn(t) ==
    /\ tpc[t] = "t_check"
    /\ IF balance[req[t].from] >= req[t].amount
       THEN Goto(t, "t_debit") /\ UNCHANGED outcome
       ELSE Goto(t, "done") /\ outcome' = [outcome EXCEPT ![t] = "insufficient"]
    /\ UNCHANGED <<balance, acc_lock, req, loc, holds, mainpc, verdict>>
    /\ BufferIdle /\ RelayIdle

TransferCheck(t) ==
    /\ tpc[t] = "t_check"
    /\ IF balance[req[t].from] >= req[t].amount
       THEN Goto(t, "t_debit") /\ UNCHANGED outcome
       ELSE Goto(t, "t_release_to") /\ outcome' = [outcome EXCEPT ![t] = "insufficient"]
    /\ UNCHANGED <<balance, acc_lock, req, loc, holds, mainpc, verdict>>
    /\ BufferIdle /\ RelayIdle

TransferDebit(t) ==
    /\ tpc[t] = "t_debit"
    /\ balance' = [balance EXCEPT ![req[t].from] = @ - req[t].amount]
    /\ Goto(t, "t_credit")
    /\ UNCHANGED <<acc_lock, req, loc, outcome, holds, mainpc, verdict>>
    /\ BufferIdle /\ RelayIdle

TransferCredit(t) ==
    /\ tpc[t] = "t_credit"
    /\ balance' = [balance EXCEPT ![req[t].to] = @ + req[t].amount]
    /\ Goto(t, "t_report")
    /\ UNCHANGED <<acc_lock, req, loc, outcome, holds, mainpc, verdict>>
    /\ BufferIdle /\ RelayIdle

TransferReport(t) ==
    /\ tpc[t] = "t_report"
    /\ outcome' = [outcome EXCEPT ![t] = "transferred"]
    /\ Goto(t, "t_release_to")
    /\ UNCHANGED <<balance, acc_lock, req, loc, holds, mainpc, verdict>>
    /\ BufferIdle /\ RelayIdle

TransferReleaseTo(t) ==
    /\ tpc[t] = "t_release_to"
    /\ ReleaseLock(t, req[t].to)
    /\ Goto(t, "t_release_from")
    /\ UNCHANGED <<balance, req, loc, outcome, mainpc, verdict>>
    /\ BufferIdle /\ RelayIdle

TransferReleaseFrom(t) ==
    /\ tpc[t] = "t_release_from"
    /\ ReleaseLock(t, req[t].from)
    /\ Goto(t, "done")
    /\ UNCHANGED <<balance, req, loc, outcome, mainpc, verdict>>
    /\ BufferIdle /\ RelayIdle

\* ---- transfer_ordered (lock order: smaller numeric id, then larger)
\* (mutant) the locks are taken in the caller's order
OrderedChooseCallerOrder(t) ==
    /\ tpc[t] = "o_order"
    /\ loc' = [loc EXCEPT ![t] = [from_id |-> NumericId(req[t].from),
                                  to_id |-> NumericId(req[t].to),
                                  lock_a |-> req[t].from,
                                  lock_b |-> req[t].to]]
    /\ Goto(t, "o_acquire_a")
    /\ UNCHANGED <<balance, acc_lock, req, outcome, holds, mainpc, verdict>>
    /\ BufferIdle /\ RelayIdle

\* from_id, to_id and the choice of lock_a, lock_b: local to the call
OrderedChoose(t) ==
    /\ tpc[t] = "o_order"
    /\ LET from_id == NumericId(req[t].from)
           to_id == NumericId(req[t].to)
       IN  IF from_id < to_id
           THEN loc' = [loc EXCEPT ![t] = [from_id |-> from_id, to_id |-> to_id,
                                          lock_a |-> req[t].from, lock_b |-> req[t].to]]
           ELSE loc' = [loc EXCEPT ![t] = [from_id |-> from_id, to_id |-> to_id,
                                          lock_a |-> req[t].to, lock_b |-> req[t].from]]
    /\ Goto(t, "o_acquire_a")
    /\ UNCHANGED <<balance, acc_lock, req, outcome, holds, mainpc, verdict>>
    /\ BufferIdle /\ RelayIdle

OrderedAcquireA(t) ==
    /\ tpc[t] = "o_acquire_a"
    /\ AcquireLock(t, loc[t].lock_a)
    /\ Goto(t, "o_sleep")
    /\ UNCHANGED <<balance, req, loc, outcome, mainpc, verdict>>
    /\ BufferIdle /\ RelayIdle

OrderedSleep(t) ==
    /\ tpc[t] = "o_sleep"
    /\ Goto(t, "o_acquire_b")
    /\ UNCHANGED <<balance, acc_lock, req, loc, outcome, holds, mainpc, verdict>>
    /\ BufferIdle /\ RelayIdle

OrderedAcquireB(t) ==
    /\ tpc[t] = "o_acquire_b"
    /\ AcquireLock(t, loc[t].lock_b)
    /\ Goto(t, "o_check")
    /\ UNCHANGED <<balance, req, loc, outcome, mainpc, verdict>>
    /\ BufferIdle /\ RelayIdle

OrderedCheck(t) ==
    /\ tpc[t] = "o_check"
    /\ IF balance[req[t].from] >= req[t].amount
       THEN Goto(t, "o_debit") /\ UNCHANGED outcome
       ELSE Goto(t, "o_release_b") /\ outcome' = [outcome EXCEPT ![t] = "insufficient"]
    /\ UNCHANGED <<balance, acc_lock, req, loc, holds, mainpc, verdict>>
    /\ BufferIdle /\ RelayIdle

OrderedDebit(t) ==
    /\ tpc[t] = "o_debit"
    /\ balance' = [balance EXCEPT ![req[t].from] = @ - req[t].amount]
    /\ Goto(t, "o_credit")
    /\ UNCHANGED <<acc_lock, req, loc, outcome, holds, mainpc, verdict>>
    /\ BufferIdle /\ RelayIdle

\* (mutant) to_account.balance = amount
OrderedCreditAssigned(t) ==
    /\ tpc[t] = "o_credit"
    /\ balance' = [balance EXCEPT ![req[t].to] = req[t].amount]
    /\ Goto(t, "o_report")
    /\ UNCHANGED <<acc_lock, req, loc, outcome, holds, mainpc, verdict>>
    /\ BufferIdle /\ RelayIdle

OrderedCredit(t) ==
    /\ tpc[t] = "o_credit"
    /\ balance' = [balance EXCEPT ![req[t].to] = @ + req[t].amount]
    /\ Goto(t, "o_report")
    /\ UNCHANGED <<acc_lock, req, loc, outcome, holds, mainpc, verdict>>
    /\ BufferIdle /\ RelayIdle

OrderedReport(t) ==
    /\ tpc[t] = "o_report"
    /\ outcome' = [outcome EXCEPT ![t] = "transferred"]
    /\ Goto(t, "o_release_b")
    /\ UNCHANGED <<balance, acc_lock, req, loc, holds, mainpc, verdict>>
    /\ BufferIdle /\ RelayIdle

OrderedReleaseB(t) ==
    /\ tpc[t] = "o_release_b"
    /\ ReleaseLock(t, loc[t].lock_b)
    /\ Goto(t, "o_release_a")
    /\ UNCHANGED <<balance, req, loc, outcome, mainpc, verdict>>
    /\ BufferIdle /\ RelayIdle

OrderedReleaseA(t) ==
    /\ tpc[t] = "o_release_a"
    /\ ReleaseLock(t, loc[t].lock_a)
    /\ Goto(t, "done")
    /\ UNCHANGED <<balance, req, loc, outcome, mainpc, verdict>>
    /\ BufferIdle /\ RelayIdle


\* ---- the threads' step relations
TransferStep(t) ==
    \/ TransferAcquireFrom(t)
    \/ TransferSleep(t)
    \/ TransferAcquireTo(t)
    \/ TransferCheck(t)
    \/ TransferDebit(t)
    \/ TransferCredit(t)
    \/ TransferReport(t)
    \/ TransferReleaseTo(t)
    \/ TransferReleaseFrom(t)

OrderedStep(t) ==
    \/ OrderedChoose(t)
    \/ OrderedAcquireA(t)
    \/ OrderedSleep(t)
    \/ OrderedAcquireB(t)
    \/ OrderedCheck(t)
    \/ OrderedDebit(t)
    \/ OrderedCredit(t)
    \/ OrderedReport(t)
    \/ OrderedReleaseB(t)
    \/ OrderedReleaseA(t)

Threads == DOMAIN tpc

\* a thread that was started and has not returned
Running(t) == tpc[t] \notin {"idle", "done"}

\* Thread.is_alive()
IsAlive(t) == Running(t)

\* ---- main: the unordered demonstration (threads "t1", "t2")
MainStartT1 ==
    /\ mainpc = "main_start_t1"
    /\ Goto("t1", "t_acquire_from")
    /\ mainpc' = "main_start_t2"
    /\ UNCHANGED <<balance, acc_lock, req, loc, outcome, holds, verdict>>
    /\ BufferIdle /\ RelayIdle

MainStartT2 ==
    /\ mainpc = "main_start_t2"
    /\ Goto("t2", "t_acquire_from")
    /\ mainpc' = "main_join_t1"
    /\ UNCHANGED <<balance, acc_lock, req, loc, outcome, holds, verdict>>
    /\ BufferIdle /\ RelayIdle

\* t1.join(timeout=3) returns when t1 has finished or when the timeout has
\* passed, whichever is first; the model does not measure time, so the timeout
\* may pass at any moment.
MainJoinT1 ==
    /\ mainpc = "main_join_t1"
    /\ mainpc' = "main_join_t2"
    /\ UNCHANGED <<balance, acc_lock, tpc, req, loc, outcome, holds, verdict>>
    /\ BufferIdle /\ RelayIdle

MainJoinT2 ==
    /\ mainpc = "main_join_t2"
    /\ mainpc' = "main_alive"
    /\ UNCHANGED <<balance, acc_lock, tpc, req, loc, outcome, holds, verdict>>
    /\ BufferIdle /\ RelayIdle

MainAlive ==
    /\ mainpc = "main_alive"
    /\ verdict' = [verdict EXCEPT !.main =
                      IF IsAlive("t1") \/ IsAlive("t2") THEN "deadlock" ELSE "final"]
    /\ mainpc' = "main_done"
    /\ UNCHANGED <<balance, acc_lock, tpc, req, loc, outcome, holds>>
    /\ BufferIdle /\ RelayIdle

MainStep == MainStartT1 \/ MainStartT2 \/ MainJoinT1 \/ MainJoinT2 \/ MainAlive

\* ---- main_ordered: the ordered demonstration (threads "t1o", "t2o")
MainOrderedReset1 ==
    /\ mainpc = "mo_reset_1"
    /\ balance' = [balance EXCEPT ![1] = InitialBalance]
    /\ mainpc' = "mo_reset_2"
    /\ UNCHANGED <<acc_lock, tpc, req, loc, outcome, holds, verdict>>
    /\ BufferIdle /\ RelayIdle

MainOrderedReset2 ==
    /\ mainpc = "mo_reset_2"
    /\ balance' = [balance EXCEPT ![2] = InitialBalance]
    /\ mainpc' = "mo_start_t1"
    /\ UNCHANGED <<acc_lock, tpc, req, loc, outcome, holds, verdict>>
    /\ BufferIdle /\ RelayIdle

MainOrderedStartT1 ==
    /\ mainpc = "mo_start_t1"
    /\ Goto("t1o", "o_order")
    /\ mainpc' = "mo_start_t2"
    /\ UNCHANGED <<balance, acc_lock, req, loc, outcome, holds, verdict>>
    /\ BufferIdle /\ RelayIdle

MainOrderedStartT2 ==
    /\ mainpc = "mo_start_t2"
    /\ Goto("t2o", "o_order")
    /\ mainpc' = "mo_join_t1"
    /\ UNCHANGED <<balance, acc_lock, req, loc, outcome, holds, verdict>>
    /\ BufferIdle /\ RelayIdle

MainOrderedJoinT1 ==
    /\ mainpc = "mo_join_t1"
    /\ mainpc' = "mo_join_t2"
    /\ UNCHANGED <<balance, acc_lock, tpc, req, loc, outcome, holds, verdict>>
    /\ BufferIdle /\ RelayIdle

MainOrderedJoinT2 ==
    /\ mainpc = "mo_join_t2"
    /\ mainpc' = "mo_alive"
    /\ UNCHANGED <<balance, acc_lock, tpc, req, loc, outcome, holds, verdict>>
    /\ BufferIdle /\ RelayIdle

MainOrderedAlive ==
    /\ mainpc = "mo_alive"
    /\ verdict' = [verdict EXCEPT !.ordered =
                      IF IsAlive("t1o") \/ IsAlive("t2o") THEN "unexpected" ELSE "success"]
    /\ mainpc' = "mo_done"
    /\ UNCHANGED <<balance, acc_lock, tpc, req, loc, outcome, holds>>
    /\ BufferIdle /\ RelayIdle

MainOrderedStep ==
    \/ MainOrderedReset1
    \/ MainOrderedReset2
    \/ MainOrderedStartT1
    \/ MainOrderedStartT2
    \/ MainOrderedJoinT1
    \/ MainOrderedJoinT2
    \/ MainOrderedAlive

\* ---- the entry point: main() and then main_ordered()
MainReturn ==
    /\ mainpc = "main_done"
    /\ mainpc' = "mo_reset_1"
    /\ UNCHANGED <<balance, acc_lock, tpc, req, loc, outcome, holds, verdict>>
    /\ BufferIdle /\ RelayIdle

\* ---- the calls of the four thread tasks
Thread1Task == [fn |-> "transfer", from |-> 1, to |-> 2, amount |-> 100]
Thread2Task == [fn |-> "transfer", from |-> 2, to |-> 1, amount |-> 50]
Thread1TaskOrdered == [fn |-> "transfer_ordered", from |-> 1, to |-> 2, amount |-> 100]
Thread2TaskOrdered == [fn |-> "transfer_ordered", from |-> 2, to |-> 1, amount |-> 50]

\* the module-level accounts account1, account2 and no thread yet
InitAccounts(n) ==
    /\ balance = [acc \in 1..n |-> InitialBalance]
    /\ acc_lock = [acc \in 1..n |-> 1]
    /\ verdict = [main |-> "none", ordered |-> "none"]

InitThreads(calls) ==
    /\ req = calls
    /\ loc = [t \in DOMAIN calls |-> NoLoc]
    /\ outcome = [t \in DOMAIN calls |-> "none"]
    /\ holds = [t \in DOMAIN calls |-> {}]


(***************************************************************************)
(* Problem1.py                                                             *)
(***************************************************************************)
\* BUFFER_SIZE is 100 in the source; the model runs a smaller buffer.
BUFFER_SIZE == 4
\* pairs each producer appends before it is cancelled (the source loops forever)
MaxIter == 2
NumProducers == 3
NumConsumers == 1

Producers == {<<"producer", i>> : i \in 0..(NumProducers - 1)}
Consumers == {<<"consumer", i>> : i \in 0..(NumConsumers - 1)}
Workers == Producers \cup Consumers

\* workers (producers and consumers together) of the general buffer scenario
MaxWorkers == 3
\* the consumers the general buffer scenario may start
AnyConsumers == {<<"consumer", i>> : i \in 0..(MaxWorkers - 2)}

\* f"P{pid}-A", f"P{pid}-B"
Payload(pid, half) == <<"P">> \o Str(pid) \o <<"-", half>>
Payloads == {Payload(w[2], h) : w \in Producers, h \in {"A", "B"}}

\* An element of the buffer: the payload, and (history) the producer and the
\* iteration of its loop that appended it.
Item(w, half) == [payload |-> Payload(w[2], half), pid |-> w[2], call |-> iters[w]]
NoItem == [payload |-> <<>>, pid |-> -1, call |-> 0]
NoLocals == [P1 |-> NoItem, P2 |-> NoItem]

WGoto(w, p) == wpc' = [wpc EXCEPT ![w] = p]

\* the producers that hold a first free-slot permit and have not appended yet
Started == {v \in DOMAIN iters : wpc[v] \in {"p_space_2", "p_lock", "p_append_1"}}

\* ---- producer(pid)
ProducerBegin(w) ==
    /\ wpc[w] = "p_begin"
    /\ iters[w] < MaxIter
    /\ wloc' = [wloc EXCEPT ![w] = [P1 |-> Item(w, "A"), P2 |-> Item(w, "B")]]
    /\ WGoto(w, "p_space_1")
    /\ UNCHANGED <<buffer, space, full, lock, iters, produced, consumed, capacity, ahead>>
    /\ TransferIdle /\ RelayIdle

ProducerSpace1(w) ==
    /\ wpc[w] = "p_space_1"
    /\ space > 0
    /\ space' = space - 1
    /\ ahead' = [ahead EXCEPT ![w] = Started \ {w}]
    /\ WGoto(w, "p_space_2")
    /\ UNCHANGED <<buffer, full, lock, wloc, iters, produced, consumed, capacity>>
    /\ TransferIdle /\ RelayIdle

\* (mutant) the second free-slot permit is not waited for
ProducerSpace2NoWait(w) ==
    /\ wpc[w] = "p_space_2"
    /\ WGoto(w, "p_lock")
    /\ UNCHANGED <<buffer, space, full, lock, wloc, iters, produced, consumed, capacity, ahead>>
    /\ TransferIdle /\ RelayIdle

ProducerSpace2(w) ==
    /\ wpc[w] = "p_space_2"
    /\ space > 0
    /\ space' = space - 1
    /\ WGoto(w, "p_lock")
    /\ UNCHANGED <<buffer, full, lock, wloc, iters, produced, consumed, capacity, ahead>>
    /\ TransferIdle /\ RelayIdle

\* (mutant) the producer does not wait for the mutex
ProducerLockNoWait(w) ==
    /\ wpc[w] = "p_lock"
    /\ lock' = lock - 1
    /\ WGoto(w, "p_append_1")
    /\ UNCHANGED <<buffer, space, full, wloc, iters, produced, consumed, capacity, ahead>>
    /\ TransferIdle /\ RelayIdle

ProducerLock(w) ==
    /\ wpc[w] = "p_lock"
    /\ lock > 0
    /\ lock' = lock - 1
    /\ WGoto(w, "p_append_1")
    /\ UNCHANGED <<buffer, space, full, wloc, iters, produced, consumed, capacity, ahead>>
    /\ TransferIdle /\ RelayIdle

ProducerAppend1(w) ==
    /\ wpc[w] = "p_append_1"
    /\ buffer' = Append(buffer, wloc[w].P1)
    /\ produced' = [produced EXCEPT ![wloc[w].P1.payload] = @ + 1]
    /\ ahead' = [v \in DOMAIN ahead |->
                    IF v \in Started \ {w} THEN ahead[v] \ {w} ELSE ahead[v]]
    /\ WGoto(w, "p_append_2")
    /\ UNCHANGED <<space, full, lock, wloc, iters, consumed, capacity>>
    /\ TransferIdle /\ RelayIdle

ProducerAppend2(w) ==
    /\ wpc[w] = "p_append_2"
    /\ buffer' = Append(buffer, wloc[w].P2)
    /\ produced' = [produced EXCEPT ![wloc[w].P2.payload] = @ + 1]
    /\ ahead' = [ahead EXCEPT ![w] = {}]
    /\ WGoto(w, "p_unlock")
    /\ UNCHANGED <<space, full, lock, wloc, iters, consumed, capacity>>
    /\ TransferIdle /\ RelayIdle

ProducerUnlock(w) ==
    /\ wpc[w] = "p_unlock"
    /\ lock' = lock + 1
    /\ WGoto(w, "p_full_1")
    /\ UNCHANGED <<buffer, space, full, wloc, iters, produced, consumed, capacity, ahead>>
    /\ TransferIdle /\ RelayIdle

\* (mutant) the first release gives both filled-slot permits, the second one more
ProducerFull1Double(w) ==
    /\ wpc[w] = "p_full_1"
    /\ full' = full + 2
    /\ WGoto(w, "p_full_2")
    /\ UNCHANGED <<buffer, space, lock, wloc, iters, produced, consumed, capacity, ahead>>
    /\ TransferIdle /\ RelayIdle

ProducerFull1(w) ==
    /\ wpc[w] = "p_full_1"
    /\ full' = full + 1
    /\ WGoto(w, "p_full_2")
    /\ UNCHANGED <<buffer, space, lock, wloc, iters, produced, consumed, capacity, ahead>>
    /\ TransferIdle /\ RelayIdle

\* (mutant) the second filled-slot permit is not released
ProducerFull2Skipped(w) ==
    /\ wpc[w] = "p_full_2"
    /\ WGoto(w, "p_sleep")
    /\ UNCHANGED <<buffer, space, full, lock, wloc, iters, produced, consumed, capacity, ahead>>
    /\ TransferIdle /\ RelayIdle

ProducerFull2(w) ==
    /\ wpc[w] = "p_full_2"
    /\ full' = full + 1
    /\ WGoto(w, "p_sleep")
    /\ UNCHANGED <<buffer, space, lock, wloc, iters, produced, consumed, capacity, ahead>>
    /\ TransferIdle /\ RelayIdle

ProducerSleep(w) ==
    /\ wpc[w] = "p_sleep"
    /\ iters' = [iters EXCEPT ![w] = @ + 1]
    /\ WGoto(w, "p_begin")
    /\ UNCHANGED <<buffer, space, full, lock, wloc, produced, consumed, capacity, ahead>>
    /\ TransferIdle /\ RelayIdle

ProducerStep(w) ==
    \/ ProducerBegin(w)
    \/ ProducerSpace1(w)
    \/ ProducerSpace2(w)
    \/ ProducerLock(w)
    \/ ProducerAppend1(w)
    \/ ProducerAppend2(w)
    \/ ProducerUnlock(w)
    \/ ProducerFull1(w)
    \/ ProducerFull2(w)
    \/ ProducerSleep(w)

\* ---- consumer(cid)
ConsumerFull1(w) ==
    /\ wpc[w] = "c_full_1"
    /\ full > 0
    /\ full' = full - 1
    /\ WGoto(w, "c_full_2")
    /\ UNCHANGED <<buffer, space, lock, wloc, iters, produced, consumed, capacity, ahead>>
    /\ TransferIdle /\ RelayIdle

\* (mutant) the second filled-slot permit is not waited for
ConsumerFull2NoWait(w) ==
    /\ wpc[w] = "c_full_2"
    /\ WGoto(w, "c_lock")
    /\ UNCHANGED <<buffer, space, full, lock, wloc, iters, produced, consumed, capacity, ahead>>
    /\ TransferIdle /\ RelayIdle

ConsumerFull2(w) ==
    /\ wpc[w] = "c_full_2"
    /\ full > 0
    /\ full' = full - 1
    /\ WGoto(w, "c_lock")
    /\ UNCHANGED <<buffer, space, lock, wloc, iters, produced, consumed, capacity, ahead>>
    /\ TransferIdle /\ RelayIdle

\* (mutant) the consumer does not wait for the mutex
ConsumerLockNoWait(w) ==
    /\ wpc[w] = "c_lock"
    /\ lock' = lock - 1
    /\ WGoto(w, "c_pop_1")
    /\ UNCHANGED <<buffer, space, full, wloc, iters, produced, consumed, capacity, ahead>>
    /\ TransferIdle /\ RelayIdle

ConsumerLock(w) ==
    /\ wpc[w] = "c_lock"
    /\ lock > 0
    /\ lock' = lock - 1
    /\ WGoto(w, "c_pop_1")
    /\ UNCHANGED <<buffer, space, full, wloc, iters, produced, consumed, capacity, ahead>>
    /\ TransferIdle /\ RelayIdle

\* (mutant) buffer.pop(): the newest element is removed
ConsumerPop1Last(w) ==
    /\ wpc[w] = "c_pop_1"
    /\ IF buffer = <<>>
       THEN WGoto(w, "index_error") /\ UNCHANGED <<buffer, wloc, consumed>>
       ELSE /\ wloc' = [wloc EXCEPT ![w].P1 = buffer[Len(buffer)]]
            /\ buffer' = SubSeq(buffer, 1, Len(buffer) - 1)
            /\ consumed' = [consumed EXCEPT ![buffer[Len(buffer)].payload] = @ + 1]
            /\ WGoto(w, "c_pop_2")
    /\ UNCHANGED <<space, full, lock, iters, produced, capacity, ahead>>
    /\ TransferIdle /\ RelayIdle

\* buffer.pop(0): IndexError on an empty list, which ends the thread where it stands
ConsumerPop1(w) ==
    /\ wpc[w] = "c_pop_1"
    /\ IF buffer = <<>>
       THEN WGoto(w, "index_error") /\ UNCHANGED <<buffer, wloc, consumed>>
       ELSE /\ wloc' = [wloc EXCEPT ![w].P1 = Head(buffer)]
            /\ buffer' = Tail(buffer)
            /\ consumed' = [consumed EXCEPT ![Head(buffer).payload] = @ + 1]
            /\ WGoto(w, "c_pop_2")
    /\ UNCHANGED <<space, full, lock, iters, produced, capacity, ahead>>
    /\ TransferIdle /\ RelayIdle

\* (mutant) buffer[0] is read and not removed
ConsumerPop2Peek(w) ==
    /\ wpc[w] = "c_pop_2"
    /\ IF buffer = <<>>
       THEN WGoto(w, "index_error") /\ UNCHANGED <<buffer, wloc, consumed>>
       ELSE /\ wloc' = [wloc EXCEPT ![w].P2 = Head(buffer)]
            /\ UNCHANGED buffer
            /\ consumed' = [consumed EXCEPT ![Head(buffer).payload] = @ + 1]
            /\ WGoto(w, "c_unlock")
    /\ UNCHANGED <<space, full, lock, iters, produced, capacity, ahead>>
    /\ TransferIdle /\ RelayIdle

ConsumerPop2(w) ==
    /\ wpc[w] = "c_pop_2"
    /\ IF buffer = <<>>
       THEN WGoto(w, "index_error") /\ UNCHANGED <<buffer, wloc, consumed>>
       ELSE /\ wloc' = [wloc EXCEPT ![w].P2 = Head(buffer)]
            /\ buffer' = Tail(buffer)
            /\ consumed' = [consumed EXCEPT ![Head(buffer).payload] = @ + 1]
            /\ WGoto(w, "c_unlock")
    /\ UNCHANGED <<space, full, lock, iters, produced, capacity, ahead>>
    /\ TransferIdle /\ RelayIdle

ConsumerUnlock(w) ==
    /\ wpc[w] = "c_unlock"
    /\ lock' = lock + 1
    /\ WGoto(w, "c_space_1")
    /\ UNCHANGED <<buffer, space, full, wloc, iters, produced, consumed, capacity, ahead>>
    /\ TransferIdle /\ RelayIdle

ConsumerSpace1(w) ==
    /\ wpc[w] = "c_space_1"
    /\ space' = space + 1
    /\ WGoto(w, "c_space_2")
    /\ UNCHANGED <<buffer, full, lock, wloc, iters, produced, consumed, capacity, ahead>>
    /\ TransferIdle /\ RelayIdle

\* (mutant) the second free-slot permit is not given back
ConsumerSpace2Kept(w) ==
    /\ wpc[w] = "c_space_2"
    /\ WGoto(w, "c_sleep")
    /\ UNCHANGED <<buffer, space, full, lock, wloc, iters, produced, consumed, capacity, ahead>>
    /\ TransferIdle /\ RelayIdle

ConsumerSpace2(w) ==
    /\ wpc[w] = "c_space_2"
    /\ space' = space + 1
    /\ WGoto(w, "c_sleep")
    /\ UNCHANGED <<buffer, full, lock, wloc, iters, produced, consumed, capacity, ahead>>
    /\ TransferIdle /\ RelayIdle

ConsumerSleep(w) ==
    /\ wpc[w] = "c_sleep"
    /\ WGoto(w, "c_full_1")
    /\ UNCHANGED <<buffer, space, full, lock, wloc, iters, produced, consumed, capacity, ahead>>
    /\ TransferIdle /\ RelayIdle

ConsumerStep(w) ==
    \/ ConsumerFull1(w)
    \/ ConsumerFull2(w)
    \/ ConsumerLock(w)
    \/ ConsumerPop1(w)
    \/ ConsumerPop2(w)
    \/ ConsumerUnlock(w)
    \/ ConsumerSpace1(w)
    \/ ConsumerSpace2(w)
    \/ ConsumerSleep(w)

\* the module-level state of Problem1.py for a buffer size and the workers it
\* starts; a worker that is not started stays at "not_started"
InitBufferOf(size, ps, cs) ==
    /\ buffer = <<>>
    /\ space = size
    /\ full = 0
    /\ lock = 1
    /\ wpc = [w \in Workers \cup AnyConsumers |->
                 IF w \in ps THEN "p_begin"
                 ELSE IF w \in cs THEN "c_full_1" ELSE "not_started"]
    /\ wloc = [w \in Workers \cup AnyConsumers |-> NoLocals]
    /\ iters = [w \in Producers |-> 0]
    /\ produced = [p \in Payloads |-> 0]
    /\ consumed = [p \in Payloads |-> 0]
    /\ capacity = size
    /\ ahead = [w \in Producers |-> {}]

InitBuffer == InitBufferOf(BUFFER_SIZE, Producers, Consumers)

(***************************************************************************)
(* Problem2.py                                                             *)
(***************************************************************************)
RGoto(i, p) == rpc' = [rpc EXCEPT ![i] = p]

BodyStarts(i) == started' = [started EXCEPT ![i] = @ + 1]
BodyCompletes(i) == completed' = [completed EXCEPT ![i] = @ + 1]

\* ---- process1
Process1Acquire ==
    /\ rpc[1] = "acquire"
    /\ a > 0
    /\ a' = a - 1
    /\ RGoto(1, "print_1")
    /\ BodyStarts(1)
    /\ UNCHANGED <<b, c, out, completed>>
    /\ TransferIdle /\ BufferIdle

\* (mutant) process1 releases b before its second print
Process1PrintHReleaseEarly ==
    /\ rpc[1] = "print_1"
    /\ out' = Append(out, "H")
    /\ b' = b + 1
    /\ RGoto(1, "print_2")
    /\ UNCHANGED <<a, c, started, completed>>
    /\ TransferIdle /\ BufferIdle

Process1PrintH ==
    /\ rpc[1] = "print_1"
    /\ out' = Append(out, "H")
    /\ RGoto(1, "print_2")
    /\ UNCHANGED <<a, b, c, started, completed>>
    /\ TransferIdle /\ BufferIdle

Process1PrintE ==
    /\ rpc[1] = "print_2"
    /\ out' = Append(out, "E")
    /\ RGoto(1, "release")
    /\ BodyCompletes(1)
    /\ UNCHANGED <<a, b, c, started>>
    /\ TransferIdle /\ BufferIdle

Process1Release ==
    /\ rpc[1] = "release"
    /\ b' = b + 1
    /\ RGoto(1, "acquire")
    /\ UNCHANGED <<a, c, out, started, completed>>
    /\ TransferIdle /\ BufferIdle

\* (mutant) process2 does not wait for b
Process2AcquireNoWait ==
    /\ rpc[2] = "acquire"
    /\ RGoto(2, "print_1")
    /\ BodyStarts(2)
    /\ UNCHANGED <<a, b, c, out, completed>>
    /\ TransferIdle /\ BufferIdle

\* ---- process2
Process2Acquire ==
    /\ rpc[2] = "acquire"
    /\ b > 0
    /\ b' = b - 1
    /\ RGoto(2, "print_1")
    /\ BodyStarts(2)
    /\ UNCHANGED <<a, c, out, completed>>
    /\ TransferIdle /\ BufferIdle

Process2PrintL1 ==
    /\ rpc[2] = "print_1"
    /\ out' = Append(out, "L")
    /\ RGoto(2, "print_2")
    /\ UNCHANGED <<a, b, c, started, completed>>
    /\ TransferIdle /\ BufferIdle

Process2PrintL2 ==
    /\ rpc[2] = "print_2"
    /\ out' = Append(out, "L")
    /\ RGoto(2, "release")
    /\ BodyCompletes(2)
    /\ UNCHANGED <<a, b, c, started>>
    /\ TransferIdle /\ BufferIdle

Process2Release ==
    /\ rpc[2] = "release"
    /\ c' = c + 1
    /\ RGoto(2, "acquire")
    /\ UNCHANGED <<a, b, out, started, completed>>
    /\ TransferIdle /\ BufferIdle

\* ---- process3: after print("O") the loop goes back to c.acquire()
Process3Acquire ==
    /\ rpc[3] = "acquire"
    /\ c > 0
    /\ c' = c - 1
    /\ RGoto(3, "print_1")
    /\ BodyStarts(3)
    /\ UNCHANGED <<a, b, out, completed>>
    /\ TransferIdle /\ BufferIdle

Process3PrintO ==
    /\ rpc[3] = "print_1"
    /\ out' = Append(out, "O")
    /\ RGoto(3, "acquire")
    /\ BodyCompletes(3)
    /\ UNCHANGED <<a, b, c, started>>
    /\ TransferIdle /\ BufferIdle

Process1 == Process1Acquire \/ Process1PrintH \/ Process1PrintE \/ Process1Release
Process2 == Process2Acquire \/ Process2PrintL1 \/ Process2PrintL2 \/ Process2Release
Process3 == Process3Acquire \/ Process3PrintO

InitRelay ==
    /\ a = 1
    /\ b = 0
    /\ c = 0
    /\ rpc = [i \in 1..3 |-> "acquire"]
    /\ out = <<>>
    /\ started = [i \in 1..3 |-> 0]
    /\ completed = [i \in 1..3 |-> 0]


(***************************************************************************)
(* Specifications                                                          *)
(***************************************************************************)
\* amounts of the general transfer scenario: one an account can pay, one it cannot
Amounts == {100, 1100}

\* the calls whose source and destination are the same account
SelfCalls(fns) ==
    {r \in [fn : fns, from : 1..NumAccounts, to : 1..NumAccounts, amount : Amounts] :
        r.from = r.to}

\* the calls transfer(from, to, amount) / transfer_ordered(from, to, amount)
\* between two distinct accounts
Calls(fns) ==
    {r \in [fn : fns, from : 1..NumAccounts, to : 1..NumAccounts, amount : Amounts] :
        r.from # r.to}

Entry(fn) == IF fn = "transfer" THEN "t_acquire_from" ELSE "o_order"

\* deadlock_simlation.py as loaded, before main() runs
InitDemo(calls, pc0) ==
    /\ InitAccounts(2)
    /\ InitThreads(calls)
    /\ tpc = [t \in DOMAIN calls |-> "idle"]
    /\ mainpc = pc0

\* The threads are interchangeable: it is enough to start them in one order
\* of their calls.
CallRank(r) ==
    (((IF r.fn = "transfer" THEN 0 ELSE 1) * (NumAccounts + 1) + r.from)
        * (NumAccounts + 1) + r.to) * 10000 + r.amount

\* NumThreads threads, each at the entry of one of the given calls, over
\* NumAccounts accounts
InitCallsOf(callset) ==
    /\ InitAccounts(NumAccounts)
    /\ \E calls \in [1..NumThreads -> callset] :
          /\ \A t \in 1..(NumThreads - 1) : CallRank(calls[t]) <= CallRank(calls[t + 1])
          /\ InitThreads(calls)
          /\ tpc = [t \in 1..NumThreads |-> Entry(calls[t].fn)]
    /\ mainpc = "none"

InitCalls(fns) == InitCallsOf(Calls(fns))

\* ---- main() with its two transfer threads
InitUnordered ==
    /\ InitDemo([t \in {"t1", "t2"} |-> IF t = "t1" THEN Thread1Task ELSE Thread2Task],
                "main_start_t1")
    /\ InitBuffer
    /\ InitRelay

NextUnordered == MainStep \/ \E t \in {"t1", "t2"} : TransferStep(t)

SpecUnordered == InitUnordered /\ [][NextUnordered]_vars

\* ---- main_ordered() with its two transfer_ordered threads
InitOrdered ==
    /\ InitDemo([t \in {"t1o", "t2o"} |->
                    IF t = "t1o" THEN Thread1TaskOrdered ELSE Thread2TaskOrdered],
                "mo_reset_1")
    /\ InitBuffer
    /\ InitRelay

NextOrdered == MainOrderedStep \/ \E t \in {"t1o", "t2o"} : OrderedStep(t)

SpecOrdered == InitOrdered /\ [][NextOrdered]_vars

\* The threads are preemptively scheduled OS threads: while some thread can
\* take a step, some thread eventually takes one.
FairSpecOrdered ==
    /\ SpecOrdered
    /\ WF_vars(NextOrdered)

\* ---- any NumThreads calls of transfer_ordered over NumAccounts accounts
InitOrderedCalls == InitCalls({"transfer_ordered"}) /\ InitBuffer /\ InitRelay

NextOrderedCalls == \E t \in 1..NumThreads : OrderedStep(t)

SpecOrderedCalls == InitOrderedCalls /\ [][NextOrderedCalls]_vars

\* Some thread that can take a step eventually takes one.
FairSpecOrderedCalls ==
    /\ SpecOrderedCalls
    /\ WF_vars(NextOrderedCalls)

\* ---- any NumThreads calls of either function over NumAccounts accounts
InitAnyCalls == InitCalls({"transfer", "transfer_ordered"}) /\ InitBuffer /\ InitRelay

NextAnyCalls == \E t \in 1..NumThreads : TransferStep(t) \/ OrderedStep(t)

SpecAnyCalls == InitAnyCalls /\ [][NextAnyCalls]_vars

\* ---- Problem1.py: the producers and the consumers
\* ---- any NumThreads calls of either variant, one of them at least from an
\* account to itself
InitSelfCalls ==
    /\ InitCallsOf(Calls({"transfer", "transfer_ordered"})
                      \cup SelfCalls({"transfer", "transfer_ordered"}))
    /\ \E t \in 1..NumThreads : req[t].from = req[t].to
    /\ InitBuffer
    /\ InitRelay

SpecSelfCalls == InitSelfCalls /\ [][NextAnyCalls]_vars

\* ---- the program: main() and then main_ordered() on the same two accounts
InitProgram ==
    /\ InitDemo([t \in {"t1", "t2", "t1o", "t2o"} |->
                    IF t = "t1" THEN Thread1Task
                    ELSE IF t = "t2" THEN Thread2Task
                    ELSE IF t = "t1o" THEN Thread1TaskOrdered
                    ELSE Thread2TaskOrdered],
                "main_start_t1")
    /\ InitBuffer
    /\ InitRelay

NextProgram ==
    \/ MainStep
    \/ MainReturn
    \/ MainOrderedStep
    \/ \E t \in {"t1", "t2"} : TransferStep(t)
    \/ \E t \in {"t1o", "t2o"} : OrderedStep(t)

SpecProgram == InitProgram /\ [][NextProgram]_vars

\* ---- Problem1.py with any even buffer size and any numbers of producers
\* and consumers
Capacities == {n \in 2..BUFFER_SIZE : n % 2 = 0}

\* (deadlock_simlation.py and Problem2.py stay as loaded)
InitBufferAny ==
    /\ InitDemo([t \in {"t1", "t2"} |-> IF t = "t1" THEN Thread1Task ELSE Thread2Task],
                "main_start_t1")
    /\ InitRelay
    /\ \E size \in Capacities, n \in 1..NumProducers, m \in 1..(MaxWorkers - 1) :
          /\ n + m <= MaxWorkers
          /\ InitBufferOf(size, {<<"producer", i>> : i \in 0..(n - 1)},
                                {<<"consumer", i>> : i \in 0..(m - 1)})

NextBufferAny ==
    \/ \E w \in Producers : ProducerStep(w)
    \/ \E w \in AnyConsumers : ConsumerStep(w)

SpecBufferAny == InitBufferAny /\ [][NextBufferAny]_vars

NextProblem1 ==
    \/ \E w \in Producers : ProducerStep(w)
    \/ \E w \in Consumers : ConsumerStep(w)

\* (deadlock_simlation.py stays as loaded)
SpecProblem1 == InitUnordered /\ [][NextProblem1]_vars

\* The workers are preemptively scheduled OS threads: while some worker can
\* take a step, some worker eventually takes one.
FairSpecProblem1 ==
    /\ SpecProblem1
    /\ WF_vars(NextProblem1)

\* ---- Problem2.py: the three processes, run beside main() of
\* deadlock_simlation.py (the programs share no state)
NextProblem2 == Process1 \/ Process2 \/ Process3 \/ NextUnordered

SpecProblem2 == InitUnordered /\ [][NextProblem2]_vars


FairSpecProblem2 ==
    /\ SpecProblem2
    /\ WF_vars(Process1)
    /\ WF_vars(Process2)
    /\ WF_vars(Process3)

(***************************************************************************)
(* Properties: deadlock_simlation.py                                       *)
(***************************************************************************)
ThreadStep(t) == TransferStep(t) \/ OrderedStep(t)

\* some started thread has not returned and no thread can take a step
Deadlocked ==
    /\ \E t \in Threads : Running(t)
    /\ ~ ENABLED (\E t \in Threads : ThreadStep(t))

OrderedDemoDone == tpc["t1o"] = "done" /\ tpc["t2o"] = "done"

\* C1: in the ordered demonstration (transfer_ordered(Account1, Account2, 100)
\* beside transfer_ordered(Account2, Account1, 50), balances 1000/1000, locks
\* free) no interleaving reaches a deadlock, both threads terminate under fair
\* scheduling, and the final balances are 950 and 1050.
C1_OrderedDemo ==
    /\ [](~ Deadlocked)
    /\ <>OrderedDemoDone
    /\ [](OrderedDemoDone => balance[1] = 950 /\ balance[2] = 1050)

\* both ordered transfers have returned and main_ordered has reported
C1_Witness ==
    /\ OrderedDemoDone
    /\ outcome["t1o"] = "transferred"
    /\ outcome["t2o"] = "transferred"
    /\ verdict.ordered = "success"

\* each thread of the unordered demonstration holds its source account's lock
\* and stands before the acquire of its destination's
CircularWait ==
    /\ tpc["t1"] = "t_acquire_to" /\ holds["t1"] = {1}
    /\ tpc["t2"] = "t_acquire_to" /\ holds["t2"] = {2}

\* C2: in the unordered demonstration the circular wait is a trap: in it no
\* thread can take a step, both locks are taken, both balances are 1000, and
\* every step from it (the driver's) leads to it again.
C2_UnorderedDeadlock ==
    /\ [](CircularWait =>
            /\ ~ ENABLED (\E t \in Threads : ThreadStep(t))
            /\ acc_lock[1] = 0 /\ acc_lock[2] = 0
            /\ balance[1] = InitialBalance /\ balance[2] = InitialBalance)
    /\ [][CircularWait =>
            /\ CircularWait'
            /\ UNCHANGED <<balance, acc_lock, tpc, holds, outcome>>]_vars

\* the circular wait, seen by main as a deadlock
C2_Witness == CircularWait /\ verdict.main = "deadlock"

\* C3: among any NumThreads calls of transfer_ordered between distinct
\* accounts (of NumAccounts accounts with distinct numeric ids) no deadlock is
\* reachable, and under fair scheduling every thread returns.
C3_OrderedNoDeadlock ==
    /\ [](~ Deadlocked)
    /\ <>(\A t \in 1..NumThreads : tpc[t] = "done")

\* two opposite transfers contend: one holds both locks, the other waits for
\* the first of them
C3_Witness ==
    \E t, u \in Threads :
        /\ req[t].from = req[u].to /\ req[t].to = req[u].from
        /\ tpc[t] = "o_check"
        /\ tpc[u] = "o_acquire_a"
        /\ ~ ENABLED OrderedStep(u)

AtCheck(t) == tpc[t] \in {"t_check", "o_check"}
Stepped(t) == tpc'[t] # tpc[t]

\* C10: a balance check (of either function) that finds amount > from.balance
\* changes no balance and reports insufficient funds; the call then changes no
\* balance in any later step, and has released both locks when it returns.
C10_InsufficientFunds ==
    /\ [][\A t \in Threads :
            /\ (AtCheck(t) /\ Stepped(t) /\ req[t].amount > balance[req[t].from])
                  => (balance' = balance /\ outcome'[t] = "insufficient")
            /\ (outcome[t] = "insufficient" /\ Stepped(t)) => balance' = balance]_vars
    /\ [](\A t \in Threads :
            (outcome[t] = "insufficient" /\ tpc[t] = "done") => holds[t] = {})

\* a call of each function has returned after reporting insufficient funds
C10_Witness ==
    \E t, u \in Threads :
        /\ req[t].fn = "transfer" /\ req[u].fn = "transfer_ordered"
        /\ tpc[t] = "done" /\ outcome[t] = "insufficient"
        /\ tpc[u] = "done" /\ outcome[u] = "insufficient"
        /\ \A acc \in DOMAIN balance : balance[acc] = InitialBalance /\ acc_lock[acc] = 1

(***************************************************************************)
(* Properties: Problem1.py                                                 *)
(***************************************************************************)
\* C4: the buffer never holds more than BUFFER_SIZE elements.
C4_Capacity == 0 <= Len(buffer) /\ Len(buffer) <= BUFFER_SIZE

\* the buffer is full while a producer waits for a free slot
C4_Witness ==
    /\ Len(buffer) = BUFFER_SIZE
    /\ \E w \in Producers : wpc[w] \in {"p_space_1", "p_space_2"}

\* x and y are the two elements of one produce call, in order
IsPair(x, y) ==
    /\ x.pid = y.pid
    /\ x.call = y.call
    /\ x.payload = Payload(x.pid, "A")
    /\ y.payload = Payload(y.pid, "B")

PairsOnly(q) ==
    /\ Len(q) % 2 = 0
    /\ \A i \in 1..Len(q) : i % 2 = 1 => IsPair(q[i], q[i + 1])

\* C5: while the mutex is free the buffer is a sequence of complete pairs;
\* after a consumer's first pop the head of the buffer is the second element of
\* the same pair, and its two pops return the two elements of one produce call
\* in order.
C5_PairAtomicity ==
    /\ lock = 1 => PairsOnly(buffer)
    /\ \A w \in Consumers :
        /\ wpc[w] = "c_pop_2" => (buffer # <<>> /\ IsPair(wloc[w].P1, Head(buffer)))
        /\ wpc[w] = "c_unlock" => IsPair(wloc[w].P1, wloc[w].P2)

\* a consumer has popped one producer's pair while another producer's pair is
\* next in the buffer and a third producer waits for free slots
C5_Witness ==
    \E w \in Consumers :
        /\ wpc[w] = "c_unlock"
        /\ IsPair(wloc[w].P1, wloc[w].P2)
        /\ Len(buffer) >= 2
        /\ buffer[1].pid # wloc[w].P1.pid
        /\ \E v \in Producers :
              /\ wpc[v] \in {"p_space_1", "p_space_2"}
              /\ v[2] \notin {buffer[1].pid, wloc[w].P1.pid}

InBuffer(p) == Cardinality({i \in 1..Len(buffer) : buffer[i].payload = p})

ClosedRun ==
    /\ \A w \in Producers : iters[w] = MaxIter
    /\ buffer = <<>>

\* C6: every payload was appended as often as it was popped or is in the
\* buffer; when every producer has stopped and the buffer is empty, what was
\* consumed is what was produced.
C6_NoLostItems ==
    /\ \A p \in Payloads : produced[p] = consumed[p] + InBuffer(p)
    /\ ClosedRun => consumed = produced

\* a closed run: every producer has appended MaxIter pairs and all are consumed
C6_Witness ==
    /\ ClosedRun
    /\ \A p \in Payloads : consumed[p] = MaxIter

(***************************************************************************)
(* Properties: Problem2.py                                                 *)
(***************************************************************************)
\* between its acquire and the end of its body
InBody(i) == rpc[i] \in {"print_1", "print_2"}

\* C7: process2's k-th body starts after process1's k-th has completed,
\* process3's k-th after process2's k-th, and process1's (k+1)-th after
\* process3's k-th.
C7_RelayOrder ==
    /\ started[2] <= completed[1]
    /\ started[3] <= completed[2]
    /\ started[1] <= completed[3] + 1

\* the three bodies have run, one after the other
C7_Witness == completed[1] = 1 /\ completed[2] = 1 /\ completed[3] = 1

\* the semaphore process i waits on, and the one the next process waits on
Permit(i) == IF i = 1 THEN a ELSE IF i = 2 THEN b ELSE c
NextPermit(i) == Permit((i % 3) + 1)

\* C8: a process goes back to waiting for its permit only by releasing the
\* permit of the next process of the cycle (process3: a), and under fair
\* scheduling every process runs its body again and again.
C8_RelayCycle ==
    /\ [][\A i \in 1..3 :
            (rpc[i] # "acquire" /\ rpc'[i] = "acquire") => NextPermit(i)' = NextPermit(i) + 1]_vars
    /\ \A i \in 1..3 : []<>InBody(i)

\* C9: no two processes are in their bodies at once.
C9_RelayMutex == Cardinality({i \in 1..3 : InBody(i)}) <= 1

\* process2 is in its body, between its two prints
C9_Witness == rpc[2] = "print_2" /\ out = <<"H", "E", "L">>

(***************************************************************************)
(* C11. Removal is first-in first-out.  A consumer's first pop returns the  *)
(* element at the head of the buffer and leaves its partner at the head;   *)
(* its second pop returns that partner, so the consumer holds the two      *)
(* oldest elements, a pair.  Every other change of the buffer adds one     *)
(* element at its tail.  Elements therefore leave in the order in which    *)
(* they were appended, whatever the order in which the producers took      *)
(* their first free-slot permits.                                          *)
(***************************************************************************)
C11_FifoRemoval ==
    [][\A w \in DOMAIN wpc :
          /\ (wpc[w] = "c_pop_1" /\ wpc'[w] # wpc[w]) =>
                 /\ Len(buffer) >= 2
                 /\ wloc'[w].P1 = buffer[1]
                 /\ buffer' = Tail(buffer)
                 /\ Head(buffer') = buffer[2]
          /\ (wpc[w] = "c_pop_2" /\ wpc'[w] # wpc[w]) =>
                 /\ Len(buffer) >= 1
                 /\ wloc'[w].P2 = buffer[1]
                 /\ buffer' = Tail(buffer)
                 /\ IsPair(wloc'[w].P1, wloc'[w].P2)
          /\ (wpc[w] \notin {"c_pop_1", "c_pop_2"} /\ wpc'[w] # wpc[w]
                 /\ buffer' # buffer) =>
                 /\ Len(buffer') = Len(buffer) + 1
                 /\ SubSeq(buffer', 1, Len(buffer)) = buffer]_vars

\* The consumer has popped a pair and is giving its permits back, while a
\* producer is appending its pair although another producer, which held its
\* first free-slot permit earlier, still waits for its second one.
C11_Witness ==
    \E k \in Consumers, w \in Producers, v \in Producers :
        /\ wpc[k] = "c_space_2"
        /\ IsPair(wloc[k].P1, wloc[k].P2)
        /\ wpc[w] = "p_append_2"
        /\ v \in ahead[w] /\ wpc[v] = "p_space_2"

(***************************************************************************)
(* C12. The buffer with many producers and many consumers.                 *)
(***************************************************************************)
Active == {w \in DOMAIN wpc : wpc[w] # "not_started"}
ActiveProducers == Active \cap Producers
ActiveConsumers == Active \cap AnyConsumers

\* the worker stands at an acquire whose semaphore is 0
Blocked(w) ==
    \/ wpc[w] \in {"p_space_1", "p_space_2"} /\ space = 0
    \/ wpc[w] \in {"c_full_1", "c_full_2"} /\ full = 0
    \/ wpc[w] \in {"p_lock", "c_lock"} /\ lock = 0

AllBlocked == \A w \in Active : Blocked(w)

\* C12 (as stated): for every even buffer size and all numbers of producers
\* and consumers, in no reachable state is every worker blocked at an acquire.
C12_BufferDeadlockFree == ~AllBlocked

\* the most permits that blocked workers can hold between them: one free-slot
\* permit per producer, and one filled-slot permit per consumer of an even
\* number of consumers (the buffer holds whole pairs when the mutex is free)
MaxHeldBlocked == Cardinality(ActiveProducers) + 2 * (Cardinality(ActiveConsumers) \div 2)

\* C12 (amended): when the even buffer size exceeds N + 2 * floor(M / 2), for N
\* producers and M consumers, in no reachable state is every worker blocked at
\* an acquire.
C12_RoomyBufferDeadlockFree ==
    capacity > MaxHeldBlocked => ~AllBlocked

\* a buffer of that size in which every producer waits for its second
\* free-slot permit while a consumer is about to pop
C12_Witness ==
    /\ capacity > MaxHeldBlocked
    /\ Cardinality(ActiveProducers) >= 2
    /\ \A w \in ActiveProducers : wpc[w] = "p_space_2" /\ Blocked(w)
    /\ \E k \in ActiveConsumers : wpc[k] = "c_lock"

(***************************************************************************)
(* C13. Balances are checked and changed only under both locks.            *)
(***************************************************************************)
\* the thread is at the balance check, the debit or the credit of its transfer
InTransfer(t) ==
    tpc[t] \in {"t_check", "t_debit", "t_credit", "o_check", "o_debit", "o_credit"}

Endpoints(t) == {req[t].from, req[t].to}

\* C13: a thread at the check, the debit or the credit of a transfer (either
\* variant) holds the locks of its source and of its destination, and no other
\* thread is at a check, debit or credit on either of these accounts.
C13_BothLocksHeld ==
    \A t \in Threads :
        InTransfer(t) =>
            /\ holds[t] = Endpoints(t)
            /\ \A acc \in Endpoints(t) : acc_lock[acc] = 0
            /\ \A u \in Threads \ {t} :
                   InTransfer(u) => Endpoints(u) \cap Endpoints(t) = {}

\* a transfer is past its debit while a transfer_ordered call on the same two
\* accounts waits for its first lock
C13_Witness ==
    \E t, u \in Threads :
        /\ t # u
        /\ tpc[t] = "t_credit"
        /\ tpc[u] = "o_acquire_a"
        /\ Endpoints(u) = Endpoints(t)
        /\ acc_lock[loc[u].lock_a] = 0

(***************************************************************************)
(* C19. Conservation of funds.                                             *)
(***************************************************************************)
RECURSIVE SumBalances(_)
SumBalances(accs) ==
    IF accs = {} THEN 0
    ELSE LET acc == CHOOSE x \in accs : TRUE
         IN  balance[acc] + SumBalances(accs \ {acc})

TotalFunds == SumBalances(DOMAIN balance)
InitialFunds == Cardinality(DOMAIN balance) * InitialBalance

\* the thread has debited the source and not yet credited the destination
MidTransfer(t) == tpc[t] \in {"t_credit", "o_credit"}

\* C19: whenever no thread is between its debit and its credit, the balances
\* add up to the initial sum; in particular whenever every account lock is free.
C19_FundsConserved ==
    /\ (\A t \in Threads : ~MidTransfer(t)) => TotalFunds = InitialFunds
    /\ (\A acc \in DOMAIN acc_lock : acc_lock[acc] = 1) => TotalFunds = InitialFunds

\* both variants have moved money, every lock is free again, and the balances
\* differ from the initial ones
C19_Witness ==
    /\ \A acc \in DOMAIN acc_lock : acc_lock[acc] = 1
    /\ \E t, u \in Threads :
           /\ req[t].fn = "transfer" /\ outcome[t] = "transferred" /\ tpc[t] = "done"
           /\ req[u].fn = "transfer_ordered" /\ outcome[u] = "transferred" /\ tpc[u] = "done"
    /\ \E acc \in DOMAIN balance : balance[acc] # InitialBalance

(***************************************************************************)
(* C14. No pop from an under-filled buffer.                                *)
(***************************************************************************)
\* C14: for every buffer size and all numbers of producers and consumers, a
\* consumer about to execute its first pop finds at least two elements, a
\* consumer about to execute its second pop finds at least one, and no
\* consumer ever fails on an empty buffer.
C14_NoUnderfilledPop ==
    \A w \in ActiveConsumers :
        /\ wpc[w] = "c_pop_1" => Len(buffer) >= 2
        /\ wpc[w] = "c_pop_2" => Len(buffer) >= 1
        /\ wpc[w] # "index_error"

\* one consumer is between its two pops while a second consumer, holding its
\* two filled-slot permits, waits for the mutex
C14_Witness ==
    \E k, j \in ActiveConsumers :
        /\ wpc[k] = "c_pop_2"
        /\ wpc[j] = "c_lock"
        /\ Len(buffer) = 3

(***************************************************************************)
(* C15. Mutual exclusion on the buffer.                                    *)
(***************************************************************************)
\* the worker is between lock.acquire() and lock.release()
InCritical(w) ==
    wpc[w] \in {"p_append_1", "p_append_2", "p_unlock", "c_pop_1", "c_pop_2", "c_unlock"}

\* the worker is at an acquire of space or full
AtPermitWait(w) == wpc[w] \in {"p_space_1", "p_space_2", "c_full_1", "c_full_2"}

MutexHolders == {w \in DOMAIN wpc : InCritical(w)}

\* C15: at most one worker is between lock.acquire() and lock.release(), and
\* the mutex is taken exactly when there is one: so each append and each pop
\* is executed by the one holder of the mutex, and a worker waiting for a
\* space or full permit does not hold it.
C15_BufferMutex ==
    /\ Cardinality(MutexHolders) <= 1
    /\ lock = 1 - Cardinality(MutexHolders)
    /\ \A w \in Active :
           /\ wpc[w] \in {"p_append_1", "p_append_2", "c_pop_1", "c_pop_2"} =>
                  (lock = 0 /\ MutexHolders = {w})
           /\ AtPermitWait(w) => w \notin MutexHolders

\* a producer is between its two appends while a consumer, holding its two
\* filled-slot permits, waits for the mutex and another producer waits for a
\* free-slot permit
C15_Witness ==
    \E w, v \in ActiveProducers, k \in ActiveConsumers :
        /\ wpc[w] = "p_append_2"
        /\ wpc[v] = "p_space_1" /\ space = 0
        /\ wpc[k] = "c_lock"

(***************************************************************************)
(* C18. Permit accounting.                                                 *)
(***************************************************************************)
\* free-slot permits a producer has acquired and not yet turned into released
\* filled-slot permits
HeldSpace(w) ==
    IF wpc[w] \in {"p_space_2", "p_full_2"} THEN 1
    ELSE IF wpc[w] \in {"p_lock", "p_append_1", "p_append_2", "p_unlock", "p_full_1"} THEN 2
    ELSE 0

\* filled-slot permits a consumer has acquired and not yet turned into released
\* free-slot permits
HeldFull(w) ==
    IF wpc[w] \in {"c_full_2", "c_space_2"} THEN 1
    ELSE IF wpc[w] \in {"c_lock", "c_pop_1", "c_pop_2", "c_unlock", "c_space_1"} THEN 2
    ELSE 0

RECURSIVE SumOver(_, _)
SumOver(ws, kind) ==
    IF ws = {} THEN 0
    ELSE LET w == CHOOSE x \in ws : TRUE
         IN  (IF kind = "space" THEN HeldSpace(w) ELSE HeldFull(w))
                 + SumOver(ws \ {w}, kind)

\* C18: space + full + the permits in the hands of producers + the permits in
\* the hands of consumers = the buffer size; full <= len(buffer),
\* space <= size - len(buffer), and neither exceeds the size.
C18_PermitAccounting ==
    /\ space + full + SumOver(ActiveProducers, "space")
          + SumOver(ActiveConsumers, "full") = capacity
    /\ full <= Len(buffer)
    /\ space <= capacity - Len(buffer)
    /\ space <= capacity /\ full <= capacity

\* permits of all four kinds at once: one free, one filled and not taken,
\* one in the hands of a producer, one in the hands of a consumer
C18_Witness ==
    /\ space = 1 /\ full = 1
    /\ SumOver(ActiveProducers, "space") = 1
    /\ SumOver(ActiveConsumers, "full") = 1

(***************************************************************************)
(* C16. main() followed by main_ordered() on the same accounts.            *)
(***************************************************************************)
\* the unordered run has ended: both of its threads returned before main
\* looked, or they are parked in the circular wait
UnorderedEnded == verdict.main = "final" \/ CircularWait

\* a thread of the ordered demonstration has started and not returned, and
\* neither of them can take a step
OrderedStuck ==
    /\ Running("t1o") \/ Running("t2o")
    /\ ~ ENABLED (OrderedStep("t1o") \/ OrderedStep("t2o"))

\* C16: however the unordered run ended, the threads of the ordered
\* demonstration are never stuck before they return, and when both have
\* returned the balances are 950 and 1050.
C16_EntrySequence ==
    UnorderedEnded =>
        /\ ~ OrderedStuck
        /\ OrderedDemoDone => (balance[1] = 950 /\ balance[2] = 1050)

(***************************************************************************)
(* C20. A transfer from an account to itself.                              *)
(***************************************************************************)
SelfCall(t) == req[t].from = req[t].to

\* the positions of a call up to and including its second acquire
BeforeCheck ==
    {"t_acquire_from", "t_sleep", "t_acquire_to",
     "o_order", "o_acquire_a", "o_sleep", "o_acquire_b"}

\* C20: a call of transfer or transfer_ordered from an account to itself never
\* gets past its second acquire (so never to the balance check, and it prints
\* no outcome); once it stands at the second acquire it stays there; and from
\* the moment it holds the account's lock, it holds it for ever, the lock stays
\* taken, the account's balance does not change, and no other thread holds or
\* gets the lock.
C20_SelfTransfer ==
    /\ [](\A t \in Threads : SelfCall(t) => (tpc[t] \in BeforeCheck /\ outcome[t] = "none"))
    /\ [][\A t \in Threads :
            /\ (SelfCall(t) /\ tpc[t] \in {"t_acquire_to", "o_acquire_b"}) =>
                   tpc'[t] = tpc[t]
            /\ (SelfCall(t) /\ holds[t] # {}) =>
                   /\ holds[t] = {req[t].from} /\ holds'[t] = holds[t]
                   /\ acc_lock[req[t].from] = 0 /\ acc_lock'[req[t].from] = 0
                   /\ balance'[req[t].from] = balance[req[t].from]
                   /\ \A u \in Threads \ {t} :
                          req[t].from \notin holds[u] /\ req[t].from \notin holds'[u]]_vars

\* a transfer_ordered call from an account to itself stands at its second
\* acquire, holding the lock, and a transfer to that account from another one
\* waits for the lock
C20_Witness ==
    \E t, u \in Threads :
        /\ SelfCall(t) /\ tpc[t] = "o_acquire_b" /\ holds[t] = {req[t].from}
        /\ ~ SelfCall(u) /\ req[u].to = req[t].from
        /\ tpc[u] = "t_acquire_to" /\ holds[u] = {req[u].from}

(***************************************************************************)
(* C17. Liveness of the reference configuration of the buffer.             *)
(***************************************************************************)
\* the producer holds its first free-slot permit and has not yet appended both
\* elements of its pair
PairPending(w) == wpc[w] \in {"p_space_2", "p_lock", "p_append_1", "p_append_2"}

====
